---- MODULE Spec2Model ----
(***************************************************************************)
(* The parse -> markdown -> extract -> export pipeline of the ADE demo     *)
(* client: PdfExtractionWorkflow (file selection, parse call, markdown     *)
(* normalisation), its child BookExtractor (extract call, schema           *)
(* validation, stored record, export button) and exportMarkdown (file      *)
(* name and content of the exported artifact).                             *)
(*                                                                         *)
(* A string is a sequence of tokens; "" is <<>>.  A token is either a      *)
(* whitespace character (" ", "\n"), another single character, or an       *)
(* opaque run of non-whitespace text.  The text the remote service         *)
(* returns for a document is tagged with the name of that document, so     *)
(* that the origin of a displayed result can be read off the result        *)
(* itself.                                                                 *)
(*                                                                         *)
(* apiKey is "the environment holds the API key" and client is "the        *)
(* client prop is not null".  Spec is the workflow given either prop;      *)
(* SpecApp is the workflow as App renders it, behind its render guard.     *)
(***************************************************************************)
EXTENDS Integers, Sequences, FiniteSets, TLC

VARIABLES apiKey, client, selectedFile, status, markdown, parseError,
          ext, calls, nIssued, lastCb, download

vars == <<apiKey, client, selectedFile, status, markdown, parseError,
          ext, calls, nIssued, lastCb, download>>

\* what no handler of the workflow writes, and the workflow's own state
wfVars == <<apiKey, client, selectedFile, status, markdown, parseError>>

---------------------------------------------------------------------------
(* Bounds *)

MaxCalls == 3

MaxChunks == 2

---------------------------------------------------------------------------
(* Strings *)

Whitespace == {" ", "\n"}

EmptyString == <<>>

RECURSIVE TrimStart(_)
TrimStart(s) ==
  IF s = <<>> THEN <<>>
  ELSE IF Head(s) \in Whitespace THEN TrimStart(Tail(s))
  ELSE s

RECURSIVE TrimEnd(_)
TrimEnd(s) ==
  IF s = <<>> THEN <<>>
  ELSE IF s[Len(s)] \in Whitespace THEN TrimEnd(SubSeq(s, 1, Len(s) - 1))
  ELSE s

\* String.prototype.trim
Trim(s) == TrimEnd(TrimStart(s))

\* Array.prototype.join
RECURSIVE Join(_, _)
Join(parts, sep) ==
  IF parts = <<>> THEN <<>>
  ELSE IF Len(parts) = 1 THEN parts[1]
  ELSE parts[1] \o sep \o Join(Tail(parts), sep)

NonBlank(s) == Len(Trim(s)) > 0

\* FilterNonBlank that tests the length without trimming
RECURSIVE FilterNonEmpty(_)
FilterNonEmpty(parts) ==
  IF parts = <<>> THEN <<>>
  ELSE IF Len(Head(parts)) > 0
       THEN <<Head(parts)>> \o FilterNonEmpty(Tail(parts))
       ELSE FilterNonEmpty(Tail(parts))

\* Array.prototype.filter with the predicate of handleParsePdf:
\* chunkMarkdown.trim().length > 0
RECURSIVE FilterNonBlank(_)
FilterNonBlank(parts) ==
  IF parts = <<>> THEN <<>>
  ELSE IF NonBlank(Head(parts))
       THEN <<Head(parts)>> \o FilterNonBlank(Tail(parts))
       ELSE FilterNonBlank(Tail(parts))

---------------------------------------------------------------------------
(* Documents and the parse endpoint *)

NoFile == "null"

Files == {"f1", "f2"}

Bodies == {"upstream-401", "upstream-500"}

\* one element of ParseResponse.chunks: { markdown?: string }
Chunk(has, text) == [has |-> has, markdown |-> text]

\* the fragments of document f: without text, blank, with text
ChunksOf(f) ==
  { Chunk(FALSE, <<>>), Chunk(TRUE, <<" ">>), Chunk(TRUE, <<f>>) }

RECURSIVE SeqsUpTo(_, _)
SeqsUpTo(S, n) ==
  IF n = 0 THEN {<<>>}
  ELSE LET shorter == SeqsUpTo(S, n - 1)
       IN  shorter \cup { Append(s, e) : s \in shorter, e \in S }

NoResp == [kind |-> "none"]

\* what fetch("/api/ade/parse") can settle with for document f
ParseResponses(f) ==
  {[kind |-> "reject"]}
  \cup {[kind |-> "http", ok |-> FALSE, body |-> b] : b \in Bodies}
  \cup {[kind |-> "http", ok |-> TRUE, hasChunks |-> FALSE, chunks |-> <<>>]}
  \cup {[kind |-> "http", ok |-> TRUE, hasChunks |-> TRUE, chunks |-> cs] :
           cs \in SeqsUpTo(ChunksOf(f), MaxChunks)}

ChunkText(chunk) == IF chunk.has THEN chunk.markdown ELSE EmptyString

MapChunkText(chunks) == [i \in 1..Len(chunks) |-> ChunkText(chunks[i])]

\* Normalize that looks at the first chunk only
NormalizeFirstOnly(hasChunks, chunks) ==
  IF hasChunks /\ chunks # <<>>
  THEN Join(FilterNonBlank(<<ChunkText(chunks[1])>>), <<"\n", "\n">>)
  ELSE EmptyString

\* parsedMarkdown
Normalize(hasChunks, chunks) ==
  IF hasChunks
  THEN Join(FilterNonBlank(MapChunkText(chunks)), <<"\n", "\n">>)
  ELSE EmptyString

ClientNotReadyMsg ==
  <<"ADE client is not ready yet. Please wait a moment and retry.">>

NoDocumentMsg ==
  <<"Please choose a document (PDF or PPTX) before parsing.">>

EmptyParseMsg ==
  <<"Parsing completed but no markdown content was returned.">>

FetchFailedMsg == <<"Failed to fetch">>

\* ParseFailedMsg that drops the response text
ParseFailedMsgNoBody(body) == <<"Parse request failed">>

ParseFailedMsg(body) == <<"Parse request failed: ", body>>

Failure(msg) == [ok |-> FALSE, markdown |-> EmptyString, error |-> msg]

\* ParseOutcome without the check for blank parsedMarkdown
ParseOutcomeNoBlankCheck(resp) ==
  IF resp.kind = "reject" THEN Failure(FetchFailedMsg)
  ELSE IF ~resp.ok THEN Failure(ParseFailedMsg(resp.body))
  ELSE [ok |-> TRUE, markdown |-> Normalize(resp.hasChunks, resp.chunks),
        error |-> EmptyString]

\* the part of handleParsePdf after the await: what the settled fetch
\* turns into
ParseOutcome(resp) ==
  IF resp.kind = "reject" THEN Failure(FetchFailedMsg)
  ELSE IF ~resp.ok THEN Failure(ParseFailedMsg(resp.body))
  ELSE LET parsedMarkdown == Normalize(resp.hasChunks, resp.chunks)
       IN  IF Trim(parsedMarkdown) = EmptyString
           THEN Failure(EmptyParseMsg)
           ELSE [ok |-> TRUE, markdown |-> parsedMarkdown,
                 error |-> EmptyString]

---------------------------------------------------------------------------
(* Decoded JSON values and DocumentExtractionSchema *)

JUndef == [t |-> "undefined"]

JNull == [t |-> "null"]

JStr(str) == [t |-> "string", s |-> str]

\* a number: n when isInt, n + 1/2 otherwise
JNum(n, isInt) == [t |-> "number", n |-> n, int |-> isInt]

JBool(b) == [t |-> "boolean", b |-> b]

JArr(items) == [t |-> "array", items |-> items]

JObj(fields) == [t |-> "object", f |-> fields]

Get(obj, key) == IF key \in DOMAIN obj.f THEN obj.f[key] ELSE JUndef

Issue(path, message) == [path |-> path, message |-> message]

Absent(v) == v.t \in {"undefined", "null"}

\* CheckString for z.string().optional(): null is no string
CheckStringNotNullable(v, path) ==
  IF v.t \in {"undefined", "string"} THEN <<>>
  ELSE <<Issue(path, "invalid_type")>>

\* z.string().optional().nullable()
CheckString(v, path) ==
  IF Absent(v) \/ v.t = "string" THEN <<>>
  ELSE <<Issue(path, "invalid_type")>>

RECURSIVE CheckItems(_, _, _)
CheckItems(items, i, path) ==
  IF i > Len(items) THEN <<>>
  ELSE (IF items[i].t = "string" THEN <<>>
        ELSE <<Issue(Append(path, ToString(i - 1)), "invalid_type")>>)
       \o CheckItems(items, i + 1, path)

\* z.array(z.string()).optional().nullable()
CheckStringArray(v, path) ==
  IF Absent(v) THEN <<>>
  ELSE IF v.t = "array" THEN CheckItems(v.items, 1, path)
  ELSE <<Issue(path, "invalid_type")>>

\* z.number().int().optional().nullable()
CheckInt(v, path) ==
  IF Absent(v) THEN <<>>
  ELSE IF v.t # "number" THEN <<Issue(path, "invalid_type")>>
  ELSE IF v.int THEN <<>>
  ELSE <<Issue(path, "not_integer")>>

\* Positive that lets zero pass, as z.number().nonnegative()
NonNegative(v) == v.n >= 0

\* n > 0, the number being n + 1/2 when it is no integer
Positive(v) == IF v.int THEN v.n > 0 ELSE v.n >= 0

\* z.number().int().positive().optional().nullable()
CheckPages(v, path) ==
  IF Absent(v) THEN <<>>
  ELSE IF v.t # "number" THEN <<Issue(path, "invalid_type")>>
  ELSE (IF v.int THEN <<>> ELSE <<Issue(path, "not_integer")>>)
       \o (IF Positive(v) THEN <<>> ELSE <<Issue(path, "too_small")>>)

\* CheckPublisher that stops at the first field with an issue
CheckPublisherFirstOnly(v, path) ==
  IF Absent(v) THEN <<>>
  ELSE IF v.t # "object" THEN <<Issue(path, "invalid_type")>>
  ELSE IF CheckString(Get(v, "name"), Append(path, "name")) # <<>>
       THEN CheckString(Get(v, "name"), Append(path, "name"))
       ELSE CheckString(Get(v, "location"), Append(path, "location"))

\* z.object({ name, location }).optional().nullable()
CheckPublisher(v, path) ==
  IF Absent(v) THEN <<>>
  ELSE IF v.t # "object" THEN <<Issue(path, "invalid_type")>>
  ELSE CheckString(Get(v, "name"), Append(path, "name"))
       \o CheckString(Get(v, "location"), Append(path, "location"))

SchemaKeys ==
  {"title", "authors", "publishedYear", "genres", "pages", "language",
   "publisher"}

PublisherKeys == {"name", "location"}

\* the issues of DocumentExtractionSchema for a decoded payload, in the
\* order of the schema's keys
Validate(v) ==
  IF v.t # "object" THEN <<Issue(<<>>, "invalid_type")>>
  ELSE CheckString(Get(v, "title"), <<"title">>)
       \o CheckStringArray(Get(v, "authors"), <<"authors">>)
       \o CheckInt(Get(v, "publishedYear"), <<"publishedYear">>)
       \o CheckStringArray(Get(v, "genres"), <<"genres">>)
       \o CheckPages(Get(v, "pages"), <<"pages">>)
       \o CheckString(Get(v, "language"), <<"language">>)
       \o CheckPublisher(Get(v, "publisher"), <<"publisher">>)

\* the parsed output of a valid payload: unknown keys are stripped
Strip(v) ==
  JObj([k \in DOMAIN v.f \cap SchemaKeys |->
          IF k = "publisher" /\ v.f[k].t = "object"
          THEN JObj([j \in DOMAIN v.f[k].f \cap PublisherKeys |-> v.f[k].f[j]])
          ELSE v.f[k]])

\* schema.safeParse
SafeParse(v) ==
  LET issues == Validate(v)
  IN  [success |-> issues = <<>>,
       data |-> IF issues = <<>> THEN Strip(v) ELSE JNull,
       issues |-> issues]

\* issue.path.join(".")
PathString(path) == Join([i \in 1..Len(path) |-> <<path[i]>>], <<".">>)

\* `${issue.path.join(".")}: ${issue.message}`
IssueString(issue) == PathString(issue.path) \o <<": ", issue.message>>

ValidationMsg(issues) ==
  <<"Schema validation failed: ">>
  \o Join([i \in 1..Len(issues) |-> IssueString(issues[i])], <<", ">>)

---------------------------------------------------------------------------
(* The extract endpoint *)

NoMarkdownMsg == <<"No markdown content provided for extraction.">>

EmptyExtractionMsg == <<"ADE returned an empty extraction result.">>

ExtractFailedMsg(body) == <<"Extract request failed: ", body>>

\* JavaScript truthiness of a decoded value: !value
Falsy(v) ==
  \/ Absent(v)
  \/ v.t = "number" /\ v.int /\ v.n = 0
  \/ v.t = "string" /\ v.s = EmptyString
  \/ v.t = "boolean" /\ ~v.b

\* the documents whose text occurs in a markdown string
DocsOf(str) == {str[i] : i \in 1..Len(str)} \cap Files

ValidPayloads(f) ==
  { JObj(<<>>),
    JObj([title |-> JStr(<<f>>)]),
    JObj([title |-> JStr(<<f>>), authors |-> JArr(<<JStr(<<"ann">>)>>),
          pages |-> JNum(1, TRUE), publisher |-> JObj([name |-> JNull]),
          isbn |-> JStr(<<"x">>)]) }

InvalidPayloads(f) ==
  { JStr(<<f>>),
    JObj([title |-> JStr(<<f>>), pages |-> JNum(0, TRUE)]),
    JObj([title |-> JNum(5, TRUE), authors |-> JArr(<<JStr(<<"ann">>), JNull>>),
          pages |-> JNum(-1, FALSE),
          publisher |-> JObj([name |-> JNum(1, TRUE),
                              location |-> JBool(TRUE)])]) }

FalsyPayloads == { JUndef, JNull, JNum(0, TRUE) }

\* what fetch("/api/ade/extract") can settle with for a markdown string
ExtractResponses(str) ==
  {[kind |-> "reject"]}
  \cup {[kind |-> "http", ok |-> FALSE, body |-> b] : b \in Bodies}
  \cup {[kind |-> "http", ok |-> TRUE, extraction |-> v] :
          v \in FalsyPayloads
                \cup UNION {ValidPayloads(f) \cup InvalidPayloads(f) :
                              f \in DocsOf(str)}}

ExtractFailure(msg) == [ok |-> FALSE, book |-> JNull, error |-> msg]

\* ExtractOutcome without the safeParse of the payload
ExtractOutcomeNoValidation(resp) ==
  IF resp.kind = "reject" THEN ExtractFailure(FetchFailedMsg)
  ELSE IF ~resp.ok THEN ExtractFailure(ExtractFailedMsg(resp.body))
  ELSE IF Falsy(resp.extraction) THEN ExtractFailure(EmptyExtractionMsg)
  ELSE [ok |-> TRUE, book |-> resp.extraction, error |-> EmptyString]

\* the part of handleExtract after the await
ExtractOutcome(resp) ==
  IF resp.kind = "reject" THEN ExtractFailure(FetchFailedMsg)
  ELSE IF ~resp.ok THEN ExtractFailure(ExtractFailedMsg(resp.body))
  ELSE IF Falsy(resp.extraction) THEN ExtractFailure(EmptyExtractionMsg)
  ELSE LET parseResult == SafeParse(resp.extraction)
       IN  IF ~parseResult.success
           THEN ExtractFailure(ValidationMsg(parseResult.issues))
           ELSE [ok |-> TRUE, book |-> parseResult.data,
                 error |-> EmptyString]

---------------------------------------------------------------------------
(* State *)

\* the state of the BookExtractor rendered by the workflow; inst counts
\* the instances mounted so far
FreshExt(inst) ==
  [mounted |-> TRUE, inst |-> inst, isExtracting |-> FALSE,
   extractedBook |-> JNull, extractedMarkdown |-> EmptyString,
   error |-> EmptyString]

Unmounted(inst) == [FreshExt(inst) EXCEPT !.mounted = FALSE]

\* the file handed to the browser by the step just taken, if that step
\* was an export: downloadMarkdown removes its link and revokes its URL
\* before it returns
NoDownload == [filename |-> EmptyString, content |-> EmptyString]

\* Render of a workflow that keeps the extractor, once mounted, on display
\* whatever the markdown
RenderKeepsExtractor(e, md) ==
  IF e.mounted THEN e
  ELSE IF md = EmptyString THEN Unmounted(e.inst)
  ELSE FreshExt(e.inst + 1)

\* {markdown ? <BookExtractor markdownContent={markdown} ... /> : <p/>}:
\* an instance that is unmounted loses its state, a new one starts fresh
Render(e, md) ==
  IF md = EmptyString THEN Unmounted(e.inst)
  ELSE IF e.mounted THEN e
  ELSE FreshExt(e.inst + 1)

NoCb == [type |-> "none", book |-> JNull, msg |-> EmptyString]

SuccessCb(book) == [type |-> "success", book |-> book, msg |-> EmptyString]

ErrorCb(msg) == [type |-> "error", book |-> JNull, msg |-> msg]

NewCall(kind, file, md, inst) ==
  [id |-> nIssued + 1, kind |-> kind, file |-> file, markdown |-> md,
   inst |-> inst, resp |-> NoResp]

Init ==
  /\ download = NoDownload
  /\ apiKey = TRUE
  /\ client \in BOOLEAN
  /\ selectedFile = NoFile
  /\ status = "idle"
  /\ markdown = EmptyString
  /\ parseError = EmptyString
  /\ ext = Unmounted(0)
  /\ calls = {}
  /\ nIssued = 0
  /\ lastCb = NoCb

---------------------------------------------------------------------------
(* PdfExtractionWorkflow *)

\* HandleFileChange without setMarkdown("")
HandleFileChangeKeepsMarkdown(file) ==
  /\ download' = NoDownload
  /\ status = "idle"
  /\ selectedFile' = file
  /\ parseError' = EmptyString
  /\ ext' = Render(ext, markdown)
  /\ UNCHANGED <<apiKey, client, status, markdown, calls, nIssued, lastCb>>

\* the file input is disabled unless status is idle
HandleFileChange(file) ==
  /\ download' = NoDownload
  /\ status = "idle"
  /\ selectedFile' = file
  /\ markdown' = EmptyString
  /\ parseError' = EmptyString
  /\ ext' = Render(ext, EmptyString)
  /\ UNCHANGED <<apiKey, client, status, calls, nIssued, lastCb>>

\* HandleParsePdf without the check of selectedFile
HandleParsePdfNoFileCheck ==
  /\ download' = NoDownload
  /\ status = "idle"
  /\ IF ~client
     THEN /\ parseError' = ClientNotReadyMsg
          /\ UNCHANGED <<apiKey, client, selectedFile, status, markdown,
                         ext, calls, nIssued, lastCb>>
     ELSE /\ nIssued < MaxCalls
          /\ status' = "parsing"
          /\ parseError' = EmptyString
          /\ markdown' = EmptyString
          /\ ext' = Render(ext, EmptyString)
          /\ calls' = calls \cup {NewCall("parse", selectedFile, EmptyString, 0)}
          /\ nIssued' = nIssued + 1
          /\ UNCHANGED <<apiKey, client, selectedFile, lastCb>>

\* HandleParsePdf that issues the call without clearing the markdown and
\* the error of the previous cycle
HandleParsePdfKeepsMarkdown ==
  /\ download' = NoDownload
  /\ status = "idle"
  /\ IF ~client
     THEN /\ parseError' = ClientNotReadyMsg
          /\ UNCHANGED <<apiKey, client, selectedFile, status, markdown,
                         ext, calls, nIssued, lastCb>>
     ELSE IF selectedFile = NoFile
     THEN /\ parseError' = NoDocumentMsg
          /\ UNCHANGED <<apiKey, client, selectedFile, status, markdown,
                         ext, calls, nIssued, lastCb>>
     ELSE /\ nIssued < MaxCalls
          /\ status' = "parsing"
          /\ calls' = calls \cup {NewCall("parse", selectedFile, EmptyString, 0)}
          /\ nIssued' = nIssued + 1
          /\ UNCHANGED <<apiKey, client, selectedFile, markdown, parseError,
                         ext, lastCb>>

\* handleParsePdf up to its await; the button is disabled unless status
\* is idle
HandleParsePdf ==
  /\ download' = NoDownload
  /\ status = "idle"
  /\ IF ~client
     THEN /\ parseError' = ClientNotReadyMsg
          /\ UNCHANGED <<apiKey, client, selectedFile, status, markdown,
                         ext, calls, nIssued, lastCb>>
     ELSE IF selectedFile = NoFile
     THEN /\ parseError' = NoDocumentMsg
          /\ UNCHANGED <<apiKey, client, selectedFile, status, markdown,
                         ext, calls, nIssued, lastCb>>
     ELSE /\ nIssued < MaxCalls
          /\ status' = "parsing"
          /\ parseError' = EmptyString
          /\ markdown' = EmptyString
          /\ ext' = Render(ext, EmptyString)
          /\ calls' = calls \cup {NewCall("parse", selectedFile, EmptyString, 0)}
          /\ nIssued' = nIssued + 1
          /\ UNCHANGED <<apiKey, client, selectedFile, lastCb>>

\* the remote service answers a pending call
Respond(c, resp) ==
  /\ download' = NoDownload
  /\ c \in calls
  /\ c.resp = NoResp
  /\ calls' = (calls \ {c}) \cup {[c EXCEPT !.resp = resp]}
  /\ UNCHANGED <<wfVars, ext, nIssued, lastCb>>

ParseRespond(c) ==
  /\ c.kind = "parse"
  /\ \E resp \in ParseResponses(c.file) : Respond(c, resp)

\* ParseResume whose catch sends the request again
ParseResumeRetries(c) ==
  /\ download' = NoDownload
  /\ c \in calls
  /\ c.kind = "parse"
  /\ c.resp # NoResp
  /\ LET outcome == ParseOutcome(c.resp)
         md == IF outcome.ok THEN outcome.markdown ELSE markdown
         retry == ~outcome.ok /\ nIssued < MaxCalls
     IN  /\ markdown' = md
         /\ status' = IF retry THEN "parsing" ELSE "idle"
         /\ parseError' = IF outcome.ok THEN parseError ELSE outcome.error
         /\ ext' = Render(ext, md)
         /\ calls' = IF retry
                     THEN (calls \ {c}) \cup {NewCall("parse", c.file, EmptyString, 0)}
                     ELSE calls \ {c}
         /\ nIssued' = IF retry THEN nIssued + 1 ELSE nIssued
  /\ UNCHANGED <<apiKey, client, selectedFile, lastCb>>

\* ParseResume whose catch does not reset the status
ParseResumeKeepsParsing(c) ==
  /\ download' = NoDownload
  /\ c \in calls
  /\ c.kind = "parse"
  /\ c.resp # NoResp
  /\ LET outcome == ParseOutcome(c.resp)
         md == IF outcome.ok THEN outcome.markdown ELSE markdown
     IN  /\ markdown' = md
         /\ status' = IF outcome.ok THEN "idle" ELSE status
         /\ parseError' = IF outcome.ok THEN parseError ELSE outcome.error
         /\ ext' = Render(ext, md)
  /\ calls' = calls \ {c}
  /\ UNCHANGED <<apiKey, client, selectedFile, nIssued, lastCb>>

\* handleParsePdf from its await on, try and catch
ParseResume(c) ==
  /\ download' = NoDownload
  /\ c \in calls
  /\ c.kind = "parse"
  /\ c.resp # NoResp
  /\ LET outcome == ParseOutcome(c.resp)
         md == IF outcome.ok THEN outcome.markdown ELSE markdown
     IN  /\ markdown' = md
         /\ status' = "idle"
         /\ parseError' = IF outcome.ok THEN parseError ELSE outcome.error
         /\ ext' = Render(ext, md)
  /\ calls' = calls \ {c}
  /\ UNCHANGED <<apiKey, client, selectedFile, nIssued, lastCb>>

---------------------------------------------------------------------------
(* BookExtractor *)

\* HandleExtract that tests markdownContent without trimming it
HandleExtractNoTrim ==
  /\ download' = NoDownload
  /\ ext.mounted
  /\ IF markdown = EmptyString
     THEN /\ ext' = [ext EXCEPT !.error = NoMarkdownMsg]
          /\ lastCb' = ErrorCb(NoMarkdownMsg)
          /\ UNCHANGED <<wfVars, calls, nIssued>>
     ELSE /\ nIssued < MaxCalls
          /\ ext' = [ext EXCEPT !.isExtracting = TRUE,
                                !.error = EmptyString,
                                !.extractedBook = JNull]
          /\ calls' = calls \cup {NewCall("extract", NoFile, markdown,
                                          ext.inst)}
          /\ nIssued' = nIssued + 1
          /\ UNCHANGED <<wfVars, lastCb>>

\* HandleExtract that issues the call without clearing the record and the
\* error of the previous extraction
HandleExtractKeepsRecord ==
  /\ download' = NoDownload
  /\ ext.mounted
  /\ IF markdown = EmptyString \/ Len(Trim(markdown)) = 0
     THEN /\ ext' = [ext EXCEPT !.error = NoMarkdownMsg]
          /\ lastCb' = ErrorCb(NoMarkdownMsg)
          /\ UNCHANGED <<wfVars, calls, nIssued>>
     ELSE /\ nIssued < MaxCalls
          /\ ext' = [ext EXCEPT !.isExtracting = TRUE]
          /\ calls' = calls \cup {NewCall("extract", NoFile, markdown,
                                          ext.inst)}
          /\ nIssued' = nIssued + 1
          /\ UNCHANGED <<wfVars, lastCb>>

\* handleExtract up to its await, with markdownContent = markdown
HandleExtract ==
  /\ download' = NoDownload
  /\ ext.mounted
  /\ IF markdown = EmptyString \/ Len(Trim(markdown)) = 0
     THEN /\ ext' = [ext EXCEPT !.error = NoMarkdownMsg]
          /\ lastCb' = ErrorCb(NoMarkdownMsg)
          /\ UNCHANGED <<wfVars, calls, nIssued>>
     ELSE /\ nIssued < MaxCalls
          /\ ext' = [ext EXCEPT !.isExtracting = TRUE,
                                !.error = EmptyString,
                                !.extractedBook = JNull]
          /\ calls' = calls \cup {NewCall("extract", NoFile, markdown,
                                          ext.inst)}
          /\ nIssued' = nIssued + 1
          /\ UNCHANGED <<wfVars, lastCb>>

\* disabled={isExtracting || !markdownContent.trim()}
ExtractEnabled == ext.mounted /\ ~ext.isExtracting /\ Trim(markdown) # EmptyString

\* a click on the extract button
ClickExtract == ExtractEnabled /\ HandleExtract

ExtractRespond(c) ==
  /\ c.kind = "extract"
  /\ \E resp \in ExtractResponses(c.markdown) : Respond(c, resp)

\* the instance that issued call c is still the mounted one; the state
\* setters of an unmounted instance have no effect
Live(c) == ext.mounted /\ ext.inst = c.inst

\* ExtractResume whose setters reach whichever extractor is mounted
ExtractResumeAnyInstance(c) ==
  /\ download' = NoDownload
  /\ c \in calls
  /\ c.kind = "extract"
  /\ c.resp # NoResp
  /\ LET outcome == ExtractOutcome(c.resp)
     IN  /\ ext' = IF ~ext.mounted THEN ext
                   ELSE IF outcome.ok
                   THEN [ext EXCEPT !.extractedBook = outcome.book,
                                    !.extractedMarkdown = c.markdown,
                                    !.isExtracting = FALSE]
                   ELSE [ext EXCEPT !.isExtracting = FALSE,
                                    !.error = outcome.error]
         /\ lastCb' = IF outcome.ok THEN SuccessCb(outcome.book)
                      ELSE ErrorCb(outcome.error)
  /\ calls' = calls \ {c}
  /\ UNCHANGED <<wfVars, nIssued>>

\* ExtractResume whose catch leaves isExtracting set
ExtractResumeKeepsExtracting(c) ==
  /\ download' = NoDownload
  /\ c \in calls
  /\ c.kind = "extract"
  /\ c.resp # NoResp
  /\ LET outcome == ExtractOutcome(c.resp)
     IN  /\ ext' = IF ~Live(c) THEN ext
                   ELSE IF outcome.ok
                   THEN [ext EXCEPT !.extractedBook = outcome.book,
                                    !.extractedMarkdown = c.markdown,
                                    !.isExtracting = FALSE]
                   ELSE [ext EXCEPT !.error = outcome.error]
         /\ lastCb' = IF outcome.ok THEN SuccessCb(outcome.book)
                      ELSE ErrorCb(outcome.error)
  /\ calls' = calls \ {c}
  /\ UNCHANGED <<wfVars, nIssued>>

\* ExtractResume whose catch shows the error without invoking
\* onExtractionError
ExtractResumeNoErrorCallback(c) ==
  /\ download' = NoDownload
  /\ c \in calls
  /\ c.kind = "extract"
  /\ c.resp # NoResp
  /\ LET outcome == ExtractOutcome(c.resp)
     IN  /\ ext' = IF ~Live(c) THEN ext
                   ELSE IF outcome.ok
                   THEN [ext EXCEPT !.extractedBook = outcome.book,
                                    !.extractedMarkdown = c.markdown,
                                    !.isExtracting = FALSE]
                   ELSE [ext EXCEPT !.isExtracting = FALSE,
                                    !.error = outcome.error]
         /\ lastCb' = IF outcome.ok THEN SuccessCb(outcome.book) ELSE lastCb
  /\ calls' = calls \ {c}
  /\ UNCHANGED <<wfVars, nIssued>>

\* handleExtract from its await on, try and catch
ExtractResume(c) ==
  /\ download' = NoDownload
  /\ c \in calls
  /\ c.kind = "extract"
  /\ c.resp # NoResp
  /\ LET outcome == ExtractOutcome(c.resp)
     IN  /\ ext' = IF ~Live(c) THEN ext
                   ELSE IF outcome.ok
                   THEN [ext EXCEPT !.extractedBook = outcome.book,
                                    !.extractedMarkdown = c.markdown,
                                    !.isExtracting = FALSE]
                   ELSE [ext EXCEPT !.isExtracting = FALSE,
                                    !.error = outcome.error]
         /\ lastCb' = IF outcome.ok THEN SuccessCb(outcome.book)
                      ELSE ErrorCb(outcome.error)
  /\ calls' = calls \ {c}
  /\ UNCHANGED <<wfVars, nIssued>>

---------------------------------------------------------------------------
(* exportMarkdown.  The strings it builds are sequences of characters and *)
(* of the fixed pieces of text of its templates.                          *)

\* String.prototype.toLowerCase on the letters A-Z
LowerCaseOf ==
  [A |-> "a", B |-> "b", C |-> "c", D |-> "d", E |-> "e", F |-> "f",
   G |-> "g", H |-> "h", I |-> "i", J |-> "j", K |-> "k", L |-> "l",
   M |-> "m", N |-> "n", O |-> "o", P |-> "p", Q |-> "q", R |-> "r",
   S |-> "s", T |-> "t", U |-> "u", V |-> "v", W |-> "w", X |-> "x",
   Y |-> "y", Z |-> "z"]

ToLowerCase(s) ==
  [i \in 1..Len(s) |->
     IF s[i] \in DOMAIN LowerCaseOf THEN LowerCaseOf[s[i]] ELSE s[i]]

\* the characters a-z and 0-9; the name of a document stands for a run of
\* them
WordChars ==
  {"a", "b", "c", "d", "e", "f", "g", "h", "i", "j", "k", "l", "m", "n",
   "o", "p", "q", "r", "s", "t", "u", "v", "w", "x", "y", "z",
   "0", "1", "2", "3", "4", "5", "6", "7", "8", "9"} \cup Files

\* .replace(/[^a-z0-9\s-]/g, "")
RECURSIVE StripSpecial(_)
StripSpecial(s) ==
  IF s = <<>> THEN <<>>
  ELSE (IF Head(s) \in WordChars \cup Whitespace \cup {"-"}
        THEN <<Head(s)>> ELSE <<>>)
       \o StripSpecial(Tail(s))

\* .replace(/\s+/g, "-")
RECURSIVE SpacesToHyphen(_)
SpacesToHyphen(s) ==
  IF s = <<>> THEN <<>>
  ELSE IF Head(s) \in Whitespace
       THEN <<"-">> \o SpacesToHyphen(TrimStart(Tail(s)))
       ELSE <<Head(s)>> \o SpacesToHyphen(Tail(s))

\* .replace(/-+/g, "-")
RECURSIVE CollapseHyphens(_)
CollapseHyphens(s) ==
  IF s = <<>> THEN <<>>
  ELSE IF Head(s) = "-" /\ Len(s) > 1 /\ s[2] = "-"
       THEN CollapseHyphens(Tail(s))
       ELSE <<Head(s)>> \o CollapseHyphens(Tail(s))

SanitizeFilename(title) ==
  Trim(CollapseHyphens(SpacesToHyphen(StripSpecial(ToLowerCase(title)))))

\* String(n) for n >= 0
RECURSIVE DecimalString(_)
DecimalString(n) ==
  IF n < 10 THEN <<ToString(n)>>
  ELSE DecimalString(n \div 10) \o <<ToString(n % 10)>>

\* `${n}` for an integer
NumberString(n) ==
  IF n < 0 THEN <<"-">> \o DecimalString(-n) ELSE DecimalString(n)

\* String.prototype.padStart
RECURSIVE PadStart(_, _, _)
PadStart(s, len, fill) ==
  IF Len(s) >= len THEN s ELSE PadStart(<<fill>> \o s, len, fill)

\* new Date(): getFullYear(), getMonth() counted from 0, getDate()
Dates ==
  {[year |-> 2024, month |-> 2, date |-> 7],
   [year |-> 2025, month |-> 10, date |-> 23]}

\* FormatDate without padStart
FormatDateNoPad(now) ==
  DecimalString(now.year)
  \o <<"-">> \o DecimalString(now.month + 1)
  \o <<"-">> \o DecimalString(now.date)

\* formatDate
FormatDate(now) ==
  DecimalString(now.year)
  \o <<"-">> \o PadStart(DecimalString(now.month + 1), 2, "0")
  \o <<"-">> \o PadStart(DecimalString(now.date), 2, "0")

\* Date.prototype.toLocaleString in the en-US locale, time of day left out
LocaleString(now) ==
  DecimalString(now.month + 1) \o <<"/">> \o DecimalString(now.date)
  \o <<"/">> \o DecimalString(now.year)

Truthy(v) == ~Falsy(v)

FallbackSlug ==
  <<"u", "n", "t", "i", "t", "l", "e", "d", "-",
    "d", "o", "c", "u", "m", "e", "n", "t">>

\* GenerateFilename that falls back for undefined and null only
GenerateFilenameNullish(data, now) ==
  LET titlePart == IF Absent(Get(data, "title"))
                   THEN FallbackSlug
                   ELSE SanitizeFilename(Get(data, "title").s)
  IN  FormatDate(now) \o <<"-">> \o titlePart \o <<".", "m", "d">>

\* generateFilename
GenerateFilename(data, now) ==
  LET titlePart == IF Truthy(Get(data, "title"))
                   THEN SanitizeFilename(Get(data, "title").s)
                   ELSE FallbackSlug
  IN  FormatDate(now) \o <<"-">> \o titlePart \o <<".", "m", "d">>

Section(cond, text) == IF cond THEN <<text>> ELSE <<>>

\* the strings of an array of strings
StringsOf(v) == [i \in 1..Len(v.items) |-> v.items[i].s]

\* NonEmptyList without the test of the length
AnyList(v) == Truthy(v)

\* data.authors && data.authors.length > 0
NonEmptyList(v) == Truthy(v) /\ Len(v.items) > 0

PublisherParts(publisher) ==
  Section(Truthy(Get(publisher, "name")), Get(publisher, "name").s)
  \o Section(Truthy(Get(publisher, "location")),
             <<"(">> \o Get(publisher, "location").s \o <<")">>)

\* DocumentSections without the test of fullMarkdown.trim()
DocumentSectionsNoTrim(fullMarkdown) ==
  IF Truthy(fullMarkdown)
  THEN << <<"\n", "---", "\n">>, <<"## Document Content", "\n">>,
          fullMarkdown.s >>
  ELSE <<>>

\* the sections pushed for the optional argument fullMarkdown, a string
\* or undefined: if (fullMarkdown && fullMarkdown.trim())
DocumentSections(fullMarkdown) ==
  IF Truthy(fullMarkdown) /\ Trim(fullMarkdown.s) # EmptyString
  THEN << <<"\n", "---", "\n">>, <<"## Document Content", "\n">>,
          fullMarkdown.s >>
  ELSE <<>>

\* the sections array of generateMarkdownContent
Sections(data, fullMarkdown, now) ==
  LET title == Get(data, "title")
      authors == Get(data, "authors")
      publishedYear == Get(data, "publishedYear")
      pages == Get(data, "pages")
      language == Get(data, "language")
      publisher == Get(data, "publisher")
      genres == Get(data, "genres")
  IN  Section(Truthy(title), <<"# ">> \o title.s \o <<"\n">>)
      \o <<(<<"## Metadata", "\n">>)>>
      \o Section(NonEmptyList(authors),
                 <<"**Authors:** ">> \o Join(StringsOf(authors), <<", ">>)
                   \o <<"\n">>)
      \o Section(Truthy(publishedYear),
                 <<"**Published Year:** ">> \o NumberString(publishedYear.n)
                   \o <<"\n">>)
      \o Section(Truthy(pages),
                 <<"**Pages:** ">> \o NumberString(pages.n) \o <<"\n">>)
      \o Section(Truthy(language),
                 <<"**Language:** ">> \o language.s \o <<"\n">>)
      \o Section(Truthy(publisher) /\ PublisherParts(publisher) # <<>>,
                 <<"**Publisher:** ">>
                   \o Join(PublisherParts(publisher), <<" ">>) \o <<"\n">>)
      \o Section(NonEmptyList(genres),
                 <<"**Genres:** ">> \o Join(StringsOf(genres), <<", ">>)
                   \o <<"\n">>)
      \o <<(<<"\n", "---", "\n">>)>>
      \o <<(<<"*Extracted on: ">> \o LocaleString(now) \o <<"*", "\n">>)>>
      \o <<(<<"*Extraction method: ADE PDF Parse & Extract*", "\n">>)>>
      \o DocumentSections(fullMarkdown)

GenerateMarkdownContent(data, fullMarkdown, now) ==
  Join(Sections(data, fullMarkdown, now), <<"\n">>)

DownloadMarkdown(data, fullMarkdown, now) ==
  [filename |-> GenerateFilename(data, now),
   content |-> GenerateMarkdownContent(data, fullMarkdown, now)]

\* a click on the export button, shown while a record is stored
ClickExport(now) ==
  /\ ext.mounted
  /\ ext.extractedBook # JNull
  /\ download' = DownloadMarkdown(ext.extractedBook,
                                 JStr(ext.extractedMarkdown), now)
  /\ UNCHANGED <<wfVars, ext, calls, nIssued, lastCb>>

---------------------------------------------------------------------------
(* The workflow as the user drives it *)

Next ==
  \/ \E file \in Files \cup {NoFile} : HandleFileChange(file)
  \/ HandleParsePdf
  \/ \E c \in calls : ParseRespond(c)
  \/ \E c \in calls : ParseResume(c)
  \/ ClickExtract
  \/ \E c \in calls : ExtractRespond(c)
  \/ \E c \in calls : ExtractResume(c)
  \/ \E now \in Dates : ClickExport(now)

Spec == Init /\ [][Next]_vars

---------------------------------------------------------------------------
(* BookExtractor on its own: a host passes any markdownContent and       *)
(* invokes handleExtract as a function whenever no extraction is in        *)
(* progress.  The button cannot do this for blank markdown: its disabled    *)
(* condition repeats the guard of handleExtract.                           *)

PropValues ==
  { EmptyString, <<" ">>, <<"\n", " ">>, <<"f1">>, <<" ", "f2">> }

InitExtractor ==
  /\ download = NoDownload
  /\ apiKey = TRUE
  /\ client = TRUE
  /\ selectedFile = NoFile
  /\ status = "idle"
  /\ markdown \in PropValues
  /\ parseError = EmptyString
  /\ ext = FreshExt(1)
  /\ calls = {}
  /\ nIssued = 0
  /\ lastCb = NoCb

\* the host re-renders the extractor with another markdownContent
HostSetsMarkdown(md) ==
  /\ download' = NoDownload
  /\ markdown' = md
  /\ UNCHANGED <<apiKey, client, selectedFile, status, parseError, ext, calls,
                 nIssued, lastCb>>

\* the host calls the handler
InvokeHandleExtract == ~ext.isExtracting /\ HandleExtract

NextExtractor ==
  \/ \E md \in PropValues : HostSetsMarkdown(md)
  \/ InvokeHandleExtract
  \/ \E c \in calls : ExtractRespond(c)
  \/ \E c \in calls : ExtractResume(c)

SpecExtractor == InitExtractor /\ [][NextExtractor]_vars

---------------------------------------------------------------------------
(* Properties *)

\* the documents a call was started for
CallDocs(c) == IF c.kind = "parse" THEN {c.file} ELSE DocsOf(c.markdown)

\* the continuation of call c runs in this step
Resumed(c) == c \in calls /\ c.resp # NoResp /\ c \notin calls'

RecordStored == ext.mounted /\ ext.extractedBook # JNull

\* the documents whose text occurs in a stored record
RecordDocs(book) ==
  IF "title" \in DOMAIN book.f /\ book.f["title"].t = "string"
  THEN DocsOf(book.f["title"].s)
  ELSE {}

DisplayedFromSelected ==
  /\ markdown # EmptyString => DocsOf(markdown) = {selectedFile}
  /\ RecordStored =>
       /\ RecordDocs(ext.extractedBook) \subseteq {selectedFile}
       /\ DocsOf(ext.extractedMarkdown) = {selectedFile}

\* C1: the markdown and the extraction record on display always come from
\* the selected document: they carry no text of another document, a change
\* of the selected document clears markdown, record and error, and the
\* continuation of a call started for another document than the selected
\* one changes neither the markdown nor the extractor's state.
C1_NoStaleResult ==
  /\ []DisplayedFromSelected
  /\ [][/\ selectedFile' # selectedFile =>
             /\ markdown' = EmptyString
             /\ parseError' = EmptyString
             /\ ~ext'.mounted
        /\ \A c \in calls :
             (Resumed(c) /\ CallDocs(c) # {selectedFile}) =>
               (markdown' = markdown /\ ext' = ext)]_vars

\* C1 witness: a valid extract response for the previous document is
\* waiting while the markdown of the newly selected document is on display
C1_Witness ==
  /\ markdown # EmptyString
  /\ ext.mounted
  /\ \E c \in calls :
       /\ c.kind = "extract"
       /\ c.resp # NoResp
       /\ c.resp.kind = "http"
       /\ c.resp.ok
       /\ c.resp.extraction \in UNION {ValidPayloads(f) : f \in Files}
       /\ DocsOf(c.markdown) # {selectedFile}

\* C2: at most one remote call is in flight at any time.
C2_AtMostOneCallInFlight == Cardinality(calls) <= 1

\* C3: a parse request without a client handle or without a selected
\* document sets the configuration or input error, issues no call and
\* leaves status, selected document and markdown as they were.
C3_ParseRejectedWithoutCall ==
  [][(HandleParsePdf /\ (~client \/ selectedFile = NoFile)) =>
       /\ parseError' \in {ClientNotReadyMsg, NoDocumentMsg}
       /\ calls' = calls
       /\ nIssued' = nIssued
       /\ status' = status
       /\ selectedFile' = selectedFile
       /\ markdown' = markdown]_vars

\* C3 witness: a document is selected, the client handle is null, and the
\* parse request has been turned down
C3_Witness ==
  /\ ~client
  /\ selectedFile # NoFile
  /\ parseError = ClientNotReadyMsg
  /\ status = "idle"
  /\ calls = {}

\* C4: handleExtract with empty or whitespace-only markdown reports the
\* input error to the state and to onExtractionError, issues no call and
\* does not start extracting.
C4_BlankExtractRejected ==
  [][(HandleExtract /\ \A i \in 1..Len(markdown) : markdown[i] \in Whitespace) =>
       /\ ext'.error = NoMarkdownMsg
       /\ lastCb' = ErrorCb(NoMarkdownMsg)
       /\ calls' = calls
       /\ nIssued' = nIssued
       /\ ext'.isExtracting = ext.isExtracting
       /\ ext'.extractedBook = ext.extractedBook]_vars

\* C4 witness: whitespace-only markdown, the input error is shown and
\* nothing is in flight
C4_Witness ==
  /\ markdown = <<" ">>
  /\ ext.error = NoMarkdownMsg
  /\ ~ext.isExtracting
  /\ calls = {}
  /\ nIssued = 0

OptString(v) == Absent(v) \/ v.t = "string"

OptStringList(v) ==
  Absent(v) \/ (v.t = "array" /\ \A i \in 1..Len(v.items) : v.items[i].t = "string")

OptInt(v) == Absent(v) \/ (v.t = "number" /\ v.int)

OptPositiveInt(v) == Absent(v) \/ (v.t = "number" /\ v.int /\ v.n >= 1)

OptPublisher(v) ==
  Absent(v) \/ (v.t = "object" /\ OptString(Get(v, "name"))
                               /\ OptString(Get(v, "location")))

\* the structural contract of an extraction record
Conforms(v) ==
  /\ v.t = "object"
  /\ OptString(Get(v, "title"))
  /\ OptStringList(Get(v, "authors"))
  /\ OptInt(Get(v, "publishedYear"))
  /\ OptStringList(Get(v, "genres"))
  /\ OptPositiveInt(Get(v, "pages"))
  /\ OptString(Get(v, "language"))
  /\ OptPublisher(Get(v, "publisher"))

\* C5: a record is stored only by the continuation of an extract call
\* whose response has a success status and a payload that meets the
\* structural contract, and the stored record is that payload's fields.
C5_StoredRecordValidated ==
  [][(ext'.mounted /\ ext'.extractedBook # JNull
        /\ (~RecordStored \/ ext'.extractedBook # ext.extractedBook)) =>
       \E c \in calls :
         /\ Resumed(c)
         /\ c.kind = "extract"
         /\ c.resp.kind = "http"
         /\ c.resp.ok
         /\ Conforms(c.resp.extraction)
         /\ Conforms(ext'.extractedBook)
         /\ \A k \in SchemaKeys :
              Absent(Get(ext'.extractedBook, k)) = Absent(Get(c.resp.extraction, k))]_vars

\* C5 witness: a record with a page count is stored
C5_Witness ==
  /\ RecordStored
  /\ Get(ext.extractedBook, "pages") = JNum(1, TRUE)
  /\ ~ext.isExtracting

\* a fragment with text that is not only whitespace
UsableChunk(chunk) ==
  chunk.has /\ \E j \in 1..Len(chunk.markdown) : chunk.markdown[j] \notin Whitespace

HasUsableChunk(resp) ==
  /\ resp.kind = "http"
  /\ resp.ok
  /\ resp.hasChunks
  /\ \E i \in 1..Len(resp.chunks) : UsableChunk(resp.chunks[i])

ParseFailed(c) == ~ParseOutcome(c.resp).ok

\* C6: a parse call ends in idle, and with markdown stored exactly when the
\* response has a success status and a fragment with non-blank text; the
\* stored markdown is the normalized string, and a stored (non-empty)
\* markdown is never whitespace-only.
C6_MarkdownStoredIffUsable ==
  /\ [](markdown = EmptyString
          \/ \E i \in 1..Len(markdown) : markdown[i] \notin Whitespace)
  /\ [][\A c \in calls : ParseResume(c) =>
          /\ status' = "idle"
          /\ (markdown' # EmptyString) = HasUsableChunk(c.resp)
          /\ markdown' # EmptyString =>
               markdown' = Normalize(c.resp.hasChunks, c.resp.chunks)]_vars

\* C6 witness: two fragments of the selected document, joined, are stored
C6_Witness ==
  /\ status = "idle"
  /\ selectedFile \in Files
  /\ markdown = <<selectedFile, "\n", "\n", selectedFile>>
  /\ calls = {}

\* C7: a successful parse response without a usable fragment normalizes to
\* the empty string and fails: the empty-result error is set, no markdown
\* is stored and the extractor is not rendered.
C7_EmptyResultIsFailure ==
  [][\A c \in calls :
       (ParseResume(c) /\ c.resp.kind = "http" /\ c.resp.ok
          /\ ~HasUsableChunk(c.resp)) =>
         /\ Normalize(c.resp.hasChunks, c.resp.chunks) = EmptyString
         /\ parseError' = EmptyParseMsg
         /\ markdown' = EmptyString
         /\ status' = "idle"
         /\ ~ext'.mounted]_vars

\* C7 witness: the empty-result error is shown for a selected document
C7_Witness ==
  /\ selectedFile # NoFile
  /\ parseError = EmptyParseMsg
  /\ markdown = EmptyString
  /\ status = "idle"
  /\ ~ext.mounted

ExtractFailed(c) == ~ExtractOutcome(c.resp).ok

BadItems(v, k) ==
  {<<k, ToString(i - 1)>> :
     i \in {j \in 1..Len(Get(v, k).items) : Get(v, k).items[j].t # "string"}}

\* the field paths at which a payload breaks the structural contract
ViolatedPaths(v) ==
  IF v.t # "object" THEN {<<>>}
  ELSE {<<k>> : k \in {j \in {"title", "language"} : ~OptString(Get(v, j))}}
       \cup {<<k>> : k \in {j \in {"authors", "genres"} :
                              ~Absent(Get(v, j)) /\ Get(v, j).t # "array"}}
       \cup UNION {BadItems(v, k) : k \in {j \in {"authors", "genres"} :
                                           Get(v, j).t = "array"}}
       \cup (IF OptInt(Get(v, "publishedYear")) THEN {} ELSE {<<"publishedYear">>})
       \cup (IF OptPositiveInt(Get(v, "pages")) THEN {} ELSE {<<"pages">>})
       \cup (IF Absent(Get(v, "publisher")) THEN {}
             ELSE IF Get(v, "publisher").t # "object" THEN {<<"publisher">>}
             ELSE {<<"publisher", k>> :
                     k \in {j \in PublisherKeys :
                              ~OptString(Get(Get(v, "publisher"), j))}})

\* a field path written with dots
Dotted(path) ==
  [i \in 1..(2 * Len(path) - 1) |->
     IF i % 2 = 1 THEN path[(i + 1) \div 2] ELSE "."]

ValidationPrefix == "Schema validation failed: "

\* msg has an entry `<path>: <violation>` for the path
ListsPath(msg, path) ==
  LET entry == Dotted(path) \o <<": ">>
  IN  \E i \in 2..Len(msg) :
        /\ msg[i - 1] \in {ValidationPrefix, ", "}
        /\ i + Len(entry) <= Len(msg)
        /\ SubSeq(msg, i, i + Len(entry) - 1) = entry
        /\ msg[i + Len(entry)] \notin {", ", ": ", "."}

IsValidationMsg(msg, v) ==
  /\ msg # EmptyString
  /\ Head(msg) = ValidationPrefix
  /\ \A path \in ViolatedPaths(v) : ListsPath(msg, path)

\* C9: a successful extract response whose payload is present (neither
\* missing nor null) and breaks the structural contract fails with one
\* validation message that lists every violated field as
\* `<field path>: <violation>`, paths written with dots, and stores no
\* record.
C9_ValidationErrorListsAllFields ==
  [][\A c \in calls :
       (ExtractResume(c) /\ c.resp.kind = "http" /\ c.resp.ok
          /\ ~Absent(c.resp.extraction) /\ ~Conforms(c.resp.extraction)) =>
         /\ lastCb'.type = "error"
         /\ IsValidationMsg(lastCb'.msg, c.resp.extraction)
         /\ Live(c) => /\ ext'.error = lastCb'.msg
                       /\ ext'.extractedBook = JNull
         /\ ~Live(c) => ext' = ext]_vars

\* C9 for a payload the handler does not take for missing (a truthy one)
C9_TruthyPayloadValidationError ==
  [][\A c \in calls :
       (ExtractResume(c) /\ c.resp.kind = "http" /\ c.resp.ok
          /\ ~Falsy(c.resp.extraction) /\ ~Conforms(c.resp.extraction)) =>
         /\ lastCb'.type = "error"
         /\ IsValidationMsg(lastCb'.msg, c.resp.extraction)
         /\ Live(c) => /\ ext'.error = lastCb'.msg
                       /\ ext'.extractedBook = JNull
         /\ ~Live(c) => ext' = ext]_vars

\* a validation message with entries for a nested and a top-level field
C9_TruthyWitness ==
  /\ ext.mounted
  /\ ~ext.isExtracting
  /\ ext.extractedBook = JNull
  /\ ListsPath(ext.error, <<"publisher", "location">>)
  /\ ListsPath(ext.error, <<"authors", "1">>)
  /\ ListsPath(ext.error, <<"pages">>)

HttpFailure(c) == c.resp.kind = "http" /\ ~c.resp.ok

InString(token, str) == \E i \in 1..Len(str) : str[i] = token

\* C10: a parse or extract response with a non-success status fails the
\* stage with a message that contains the response body, and nothing of it
\* is stored: no markdown after the parse call, no record after the extract
\* call.
C10_TransportErrorCarriesBody ==
  [][\A c \in calls :
       /\ (ParseResume(c) /\ HttpFailure(c)) =>
            /\ InString(c.resp.body, parseError')
            /\ markdown' = EmptyString
            /\ ~ext'.mounted
            /\ status' = "idle"
       /\ (ExtractResume(c) /\ HttpFailure(c)) =>
            /\ lastCb'.type = "error"
            /\ InString(c.resp.body, lastCb'.msg)
            /\ Live(c) => /\ ext'.error = lastCb'.msg
                          /\ ext'.extractedBook = JNull
                          /\ ~ext'.isExtracting
            /\ ~Live(c) => ext' = ext]_vars

\* C10 witness: the extractor shows the body of a failed extract call and
\* holds no record
C10_Witness ==
  /\ ext.mounted
  /\ ext.error = <<"Extract request failed: ", "upstream-500">>
  /\ ext.extractedBook = JNull
  /\ ~ext.isExtracting
  /\ markdown # EmptyString

---------------------------------------------------------------------------
(* No failure is terminal *)

\* calls issued in a run of the workflow under fairness
MaxFairCalls == 2

\* the kinds of answer of the parse endpoint: no answer body, one failure
\* body, and at most one chunk
ShortParseResponses(f) ==
  {r \in ParseResponses(f) :
     /\ (r.kind = "http" /\ ~r.ok) => r.body = "upstream-500"
     /\ (r.kind = "http" /\ r.ok /\ r.hasChunks) => Len(r.chunks) <= 1}

ShortParseRespond(c) ==
  /\ c.kind = "parse"
  /\ \E resp \in ShortParseResponses(c.file) : Respond(c, resp)

\* the kinds of answer of the extract endpoint: one failure body, a null
\* payload, a payload that validates and one that does not
ShortExtractResponses(str) ==
  {r \in ExtractResponses(str) :
     /\ (r.kind = "http" /\ ~r.ok) => r.body = "upstream-500"
     /\ (r.kind = "http" /\ r.ok) =>
          r.extraction \in {JNull, JObj(<<>>)} \cup {JStr(<<f>>) : f \in Files}}

ShortExtractRespond(c) ==
  /\ c.kind = "extract"
  /\ \E resp \in ShortExtractResponses(c.markdown) : Respond(c, resp)

NextFair ==
  \/ \E file \in Files \cup {NoFile} : HandleFileChange(file)
  \/ nIssued < MaxFairCalls /\ HandleParsePdf
  \/ \E c \in calls : ShortParseRespond(c)
  \/ \E c \in calls : ParseResume(c)
  \/ nIssued < MaxFairCalls /\ ClickExtract
  \/ \E c \in calls : ShortExtractRespond(c)
  \/ \E c \in calls : ExtractResume(c)

\* Once the promise a handler awaits has settled, the event loop runs the
\* handler's continuation; whether the remote service answers at all is
\* left open.
FairSpec ==
  /\ Init
  /\ [][NextFair]_vars
  /\ \A id \in 1..MaxFairCalls :
       /\ WF_vars(\E c \in calls : c.id = id /\ ParseResume(c))
       /\ WF_vars(\E c \in calls : c.id = id /\ ExtractResume(c))

Answered(id) == \E c \in calls : c.id = id /\ c.resp # NoResp

Settled(id) == \A c \in calls : c.id # id

\* the parse button is enabled and a document is selected
ParseEnabled == selectedFile # NoFile /\ status = "idle"

---------------------------------------------------------------------------
(* No automatic retry *)

Ids(cs) == {c.id : c \in cs}

\* the step adds exactly one call, of the given kind and not yet answered
IssuesOne(kind) ==
  /\ nIssued' = nIssued + 1
  /\ \E c \in calls' :
       /\ c.id \notin Ids(calls)
       /\ c.kind = kind
       /\ c.resp = NoResp
       /\ calls' = calls \cup {c}

\* C12: an accepted parse request and an accepted extract request issue
\* exactly one call each; a call is issued only by a step of the user's
\* parse or extract trigger; and the step that settles a call, failed or
\* not, removes that call and issues none.
C12_NoAutomaticRetry ==
  [][/\ (HandleParsePdf /\ client /\ selectedFile # NoFile) => IssuesOne("parse")
     /\ ClickExtract => IssuesOne("extract")
     /\ (nIssued' # nIssued \/ ~(Ids(calls') \subseteq Ids(calls))) =>
          (HandleParsePdf \/ ClickExtract)
     /\ \A c \in calls :
          (ParseResume(c) \/ ExtractResume(c)) =>
            /\ calls' = calls \ {c}
            /\ nIssued' = nIssued]_vars

\* C12 witness: the only call issued has failed and none is pending
C12_Witness ==
  /\ nIssued = 1
  /\ calls = {}
  /\ parseError = FetchFailedMsg
  /\ status = "idle"
  /\ selectedFile # NoFile

---------------------------------------------------------------------------
(* The normalization of handleParsePdf on any chunk sequence *)

\* chunks of document f: without text, empty, blank, plain, padded with
\* whitespace, and holding a blank line of their own
TextChunks(f) ==
  { Chunk(FALSE, <<>>), Chunk(TRUE, <<>>), Chunk(TRUE, <<" ">>),
    Chunk(TRUE, <<"\n", " ">>), Chunk(TRUE, <<f>>),
    Chunk(TRUE, <<" ", f, "\n">>), Chunk(TRUE, <<f, "\n", "\n", f>>) }

\* the parse call of the selected document has been answered with success
InitNormalize ==
  /\ download = NoDownload
  /\ apiKey = TRUE
  /\ client = TRUE
  /\ selectedFile \in Files
  /\ status = "parsing"
  /\ markdown = EmptyString
  /\ parseError = EmptyString
  /\ ext = Unmounted(0)
  /\ \E cs \in SeqsUpTo(TextChunks(selectedFile), MaxChunks + 1) :
       calls = {[id |-> 1, kind |-> "parse", file |-> selectedFile,
                 markdown |-> EmptyString, inst |-> 0,
                 resp |-> [kind |-> "http", ok |-> TRUE, hasChunks |-> TRUE,
                           chunks |-> cs]]}
  /\ nIssued = 1
  /\ lastCb = NoCb

NextNormalize == \E c \in calls : ParseResume(c)

SpecNormalize == InitNormalize /\ [][NextNormalize]_vars

\* the texts of the usable chunks from position i on, in order and
\* unchanged, with a blank line before each one but the first
RECURSIVE SurvivorsFrom(_, _, _)
SurvivorsFrom(chunks, i, first) ==
  IF i > Len(chunks) THEN <<>>
  ELSE IF UsableChunk(chunks[i])
       THEN (IF first THEN <<>> ELSE <<"\n", "\n">>)
              \o chunks[i].markdown \o SurvivorsFrom(chunks, i + 1, FALSE)
       ELSE SurvivorsFrom(chunks, i + 1, first)

\* C13: the normalization of a chunk sequence is the texts of the chunks
\* whose text is present and not only whitespace, in their order and
\* unchanged, with a double line break between consecutive ones and
\* nowhere else; it is what the parse handler stores as the markdown.
C13_NormalizeKeepsUsableChunks ==
  /\ [](\A c \in calls :
          (c.kind = "parse" /\ c.resp # NoResp /\ c.resp.kind = "http"
             /\ c.resp.ok /\ c.resp.hasChunks) =>
            Normalize(TRUE, c.resp.chunks) = SurvivorsFrom(c.resp.chunks, 1, TRUE))
  /\ [][\A c \in calls :
          (ParseResume(c) /\ c.resp.kind = "http" /\ c.resp.ok /\ c.resp.hasChunks) =>
            markdown' = SurvivorsFrom(c.resp.chunks, 1, TRUE)]_vars

\* C13 witness: of four chunks, two blank ones were dropped and the two
\* others, one padded with whitespace, are joined by one blank line
C13_Witness ==
  /\ calls = {}
  /\ status = "idle"
  /\ \E f \in Files : markdown = <<" ", f, "\n", "\n", "\n", f>>

---------------------------------------------------------------------------
(* DocumentExtractionSchema on any decoded payload *)

\* the object with the fields of a that are not undefined
MkObj(a) == JObj([k \in {j \in DOMAIN a : a[j] # JUndef} |-> a[k]])

NoValue == {JUndef, JNull}

\* payloads in which every field has no value
EmptyPayloads ==
  {MkObj(a) :
     a \in [title : NoValue, authors : NoValue, publishedYear : NoValue,
            genres : NoValue, pages : NoValue, language : NoValue,
            publisher : NoValue
                          \cup {MkObj(p) : p \in [name : NoValue,
                                                  location : NoValue]}]}

\* payloads with a page count that is zero, negative or not an integer
BadPagesPayloads ==
  {MkObj(a) :
     a \in [title : {JUndef, JStr(<<"f1">>), JNum(5, TRUE)},
            pages : {JNum(0, TRUE), JNum(-1, TRUE), JNum(-2, TRUE),
                     JNum(0, FALSE), JNum(1, FALSE), JNum(-1, FALSE),
                     JNum(-2, FALSE)},
            publisher : {JUndef, JObj([name |-> JNum(1, TRUE)])}]}

\* payloads in which every field is missing, well typed or wrongly typed
TypedPayloads ==
  {MkObj(a) :
     a \in [title : {JUndef, JStr(<<"f1">>), JNum(5, TRUE)},
            authors : {JUndef, JArr(<<JStr(<<"ann">>)>>), JStr(<<"ann">>),
                       JArr(<<JStr(<<"ann">>), JNull, JNum(1, TRUE)>>)},
            publishedYear : {JUndef, JNum(1999, TRUE), JStr(<<"1999">>)},
            genres : {JUndef, JArr(<<>>), JBool(TRUE)},
            pages : {JUndef, JNum(1, TRUE), JStr(<<"1">>)},
            language : {JUndef, JStr(<<"en">>), JArr(<<>>)},
            publisher : {JUndef, JStr(<<"acme">>)}
                          \cup {MkObj(p) :
                                  p \in [name : {JUndef, JStr(<<"acme">>),
                                                 JNum(1, TRUE)},
                                         location : {JUndef, JStr(<<"rome">>),
                                                     JBool(FALSE)}]}]}

\* payloads that are no object
ScalarPayloads ==
  {JUndef, JNull, JBool(FALSE), JBool(TRUE), JNum(0, TRUE), JNum(1, TRUE),
   JStr(<<>>), JStr(<<"f1">>), JArr(<<>>)}

SchemaPayloads ==
  EmptyPayloads \cup BadPagesPayloads \cup TypedPayloads \cup ScalarPayloads

\* the extract call of a mounted extractor has been answered with success
InitValidate ==
  /\ download = NoDownload
  /\ apiKey = TRUE
  /\ client = TRUE
  /\ selectedFile = "f1"
  /\ status = "idle"
  /\ markdown = <<"f1">>
  /\ parseError = EmptyString
  /\ ext = [FreshExt(1) EXCEPT !.isExtracting = TRUE]
  /\ \E v \in SchemaPayloads :
       calls = {[id |-> 2, kind |-> "extract", file |-> NoFile,
                 markdown |-> <<"f1">>, inst |-> 1,
                 resp |-> [kind |-> "http", ok |-> TRUE, extraction |-> v]]}
  /\ nIssued = 2
  /\ lastCb = NoCb

NextValidate == \E c \in calls : ExtractResume(c)

SpecValidate == InitValidate /\ [][NextValidate]_vars

\* the payloads of the answered calls
AnsweredPayloads ==
  {c.resp.extraction :
     c \in {d \in calls : d.kind = "extract" /\ d.resp # NoResp
                            /\ d.resp.kind = "http" /\ d.resp.ok}}

HasNoValue(v, keys) == \A k \in keys : Absent(Get(v, k))

\* every field of v is absent or null, those of a publisher object included
AllAbsentOrNull(v) ==
  /\ v.t = "object"
  /\ HasNoValue(v, SchemaKeys \ {"publisher"})
  /\ LET p == Get(v, "publisher")
     IN  Absent(p) \/ (p.t = "object" /\ HasNoValue(p, PublisherKeys))

\* C14: a payload in which every field is absent or null validates, and
\* the record it yields, which the extractor stores, has no value in any
\* field; the payload without any field yields the record without any
\* field.
C14_AbsentOrNullValidates ==
  /\ [](\A v \in AnsweredPayloads :
          AllAbsentOrNull(v) =>
            /\ SafeParse(v).success
            /\ AllAbsentOrNull(SafeParse(v).data)
            /\ v = JObj(<<>>) => SafeParse(v).data = JObj(<<>>))
  /\ [][\A c \in calls :
          (ExtractResume(c) /\ c.resp.kind = "http" /\ c.resp.ok
             /\ AllAbsentOrNull(c.resp.extraction)) =>
            /\ lastCb'.type = "success"
            /\ ext'.extractedBook = c.resp.extraction
            /\ ext'.error = EmptyString]_vars

\* C14 witness: a payload of nulls was validated and stored
C14_Witness ==
  /\ calls = {}
  /\ ~ext.isExtracting
  /\ ext.extractedBook = JObj([title |-> JNull, pages |-> JNull,
                               publisher |-> JObj([name |-> JNull])])

\* the issues safeParse reports for v are under these paths
IssuePaths(v) ==
  {SafeParse(v).issues[i].path : i \in 1..Len(SafeParse(v).issues)}

\* an object whose page count is a number that is zero, negative or not an
\* integer
BadPageCount(v) ==
  /\ v.t = "object"
  /\ Get(v, "pages").t = "number"
  /\ \/ ~Get(v, "pages").int
     \/ Get(v, "pages").n <= 0

\* C15: a payload whose page count is zero, negative or not an integer
\* fails validation with a violation under the path pages; the extractor
\* then stores no record and its message has an entry for pages.
C15_BadPageCountRejected ==
  /\ [](\A v \in AnsweredPayloads :
          BadPageCount(v) =>
            /\ ~SafeParse(v).success
            /\ <<"pages">> \in IssuePaths(v))
  /\ [][\A c \in calls :
          (ExtractResume(c) /\ c.resp.kind = "http" /\ c.resp.ok
             /\ BadPageCount(c.resp.extraction)) =>
            /\ lastCb'.type = "error"
            /\ ListsPath(lastCb'.msg, <<"pages">>)
            /\ ext'.error = lastCb'.msg
            /\ ext'.extractedBook = JNull]_vars

\* C15 witness: a page count of zero was rejected under the path pages
C15_Witness ==
  /\ calls = {}
  /\ ~ext.isExtracting
  /\ ext.extractedBook = JNull
  /\ ext.error = <<"Schema validation failed: ", "pages", ": ", "too_small">>

\* C16: for every decoded payload, object or not, safeParse yields either
\* success with a record that meets the structural contract and no
\* violation, or failure with a non-empty list of violations and no
\* record; the paths of the violations are exactly the fields that break
\* the contract, so a wrongly typed field is reported under its path, and
\* publisher.name and publisher.location each under their own path next
\* to the violations of top-level fields.  The message the extractor
\* builds for an object payload has an entry for each of these paths.
C16_ValidationTotalAndExhaustive ==
  /\ [](\A v \in AnsweredPayloads :
          LET r == SafeParse(v)
          IN  /\ r.success \in BOOLEAN
              /\ r.success => /\ r.issues = <<>>
                              /\ Conforms(v)
                              /\ Conforms(r.data)
              /\ ~r.success => /\ r.issues # <<>>
                               /\ ~Conforms(v)
                               /\ r.data = JNull
              /\ \A i \in 1..Len(r.issues) :
                   DOMAIN r.issues[i] = {"path", "message"}
              /\ IssuePaths(v) = ViolatedPaths(v))
  /\ [][\A c \in calls :
          (ExtractResume(c) /\ c.resp.kind = "http" /\ c.resp.ok
             /\ c.resp.extraction.t = "object") =>
            IF Conforms(c.resp.extraction)
            THEN lastCb'.type = "success" /\ Conforms(ext'.extractedBook)
            ELSE /\ lastCb'.type = "error"
                 /\ \A path \in ViolatedPaths(c.resp.extraction) :
                      ListsPath(lastCb'.msg, path)
                 /\ ext'.error = lastCb'.msg]_vars

\* C16 witness: wrong types in title, language and both publisher fields
\* were reported together, each under its own path
C16_Witness ==
  /\ calls = {}
  /\ ~ext.isExtracting
  /\ ListsPath(ext.error, <<"title">>)
  /\ ListsPath(ext.error, <<"language">>)
  /\ ListsPath(ext.error, <<"publisher", "name">>)
  /\ ListsPath(ext.error, <<"publisher", "location">>)
  /\ ~ListsPath(ext.error, <<"publisher">>)

---------------------------------------------------------------------------
(* The export of any validated record *)

MaxTitleLen == 3

\* an upper-case letter, a lower-case letter, a digit, a space, a hyphen
\* and a punctuation mark
TitleChars == {"A", "b", "1", " ", "-", "!"}

\* "Deep Learning: A Primer!"
PrimerTitle ==
  <<"D", "e", "e", "p", " ", "L", "e", "a", "r", "n", "i", "n", "g", ":",
    " ", "A", " ", "P", "r", "i", "m", "e", "r", "!">>

Titles == SeqsUpTo(TitleChars, MaxTitleLen) \cup {PrimerTitle}

\* records that differ in their title
TitleRecords ==
  {MkObj(a) :
     a \in [title : {JUndef, JNull} \cup {JStr(t) : t \in Titles},
            authors : {JUndef, JArr(<<JStr(<<"ann">>)>>)}]}

\* records that differ in which fields have a value, and which value
FieldRecords ==
  {MkObj(a) :
     a \in [title : {JUndef, JStr(<<>>), JStr(<<"A", "b">>)},
            authors : {JUndef, JNull, JArr(<<>>), JArr(<<JStr(<<"ann">>)>>),
                       JArr(<<JStr(<<"ann">>), JStr(<<"bob">>)>>)},
            publishedYear : {JUndef, JNum(0, TRUE), JNum(1999, TRUE),
                             JNum(-44, TRUE)},
            pages : {JUndef, JNum(7, TRUE)},
            language : {JUndef, JStr(<<>>), JStr(<<"en">>)},
            publisher : {JUndef, JNull, JObj(<<>>),
                         JObj([name |-> JStr(<<"acme">>)]),
                         JObj([location |-> JStr(<<"rome">>)]),
                         JObj([name |-> JStr(<<"acme">>),
                               location |-> JStr(<<"rome">>)]),
                         JObj([name |-> JStr(<<>>), location |-> JNull])},
            genres : {JUndef, JArr(<<>>), JArr(<<JStr(<<"x">>)>>)}]}

ExportRecords == TitleRecords \cup FieldRecords

\* the extractor holds a validated record and the markdown it came from
InitExport ==
  /\ download = NoDownload
  /\ apiKey = TRUE
  /\ client = TRUE
  /\ selectedFile = "f1"
  /\ status = "idle"
  /\ markdown = <<"f1">>
  /\ parseError = EmptyString
  /\ \E data \in ExportRecords :
       ext = [FreshExt(1) EXCEPT !.extractedBook = data,
                                 !.extractedMarkdown = <<"f1">>]
  /\ calls = {}
  /\ nIssued = 2
  /\ lastCb = SuccessCb(ext.extractedBook)

NextExport == \E now \in Dates : ClickExport(now)

SpecExport == InitExport /\ [][NextExport]_vars

DigitOf ==
  ("0" :> 0) @@ ("1" :> 1) @@ ("2" :> 2) @@ ("3" :> 3) @@ ("4" :> 4)
  @@ ("5" :> 5) @@ ("6" :> 6) @@ ("7" :> 7) @@ ("8" :> 8) @@ ("9" :> 9)

\* the number a string of decimal digits denotes; -1 for any other string
RECURSIVE DecimalValue(_)
DecimalValue(s) ==
  IF s = <<>> \/ \E i \in 1..Len(s) : s[i] \notin DOMAIN DigitOf THEN -1
  ELSE IF Len(s) = 1 THEN DigitOf[s[1]]
  ELSE 10 * DecimalValue(SubSeq(s, 1, Len(s) - 1)) + DigitOf[s[Len(s)]]

\* str is YYYY-MM-DD for the date: four, two and two digits
IsIsoDate(str, now) ==
  /\ Len(str) = 10
  /\ DecimalValue(SubSeq(str, 1, 4)) = now.year
  /\ str[5] = "-"
  /\ DecimalValue(SubSeq(str, 6, 7)) = now.month + 1
  /\ str[8] = "-"
  /\ DecimalValue(SubSeq(str, 9, 10)) = now.date

\* fn is <YYYY-MM-DD>-<slug>.md
IsExportName(fn, now, slug) ==
  /\ Len(fn) = 14 + Len(slug)
  /\ IsIsoDate(SubSeq(fn, 1, 10), now)
  /\ fn[11] = "-"
  /\ SubSeq(fn, 12, 11 + Len(slug)) = slug
  /\ SubSeq(fn, 12 + Len(slug), Len(fn)) = <<".", "m", "d">>

ExportedTitle == Get(ext.extractedBook, "title")

\* 2024-03-07-deep-learning-a-primer.md
PrimerFilename ==
  <<"2", "0", "2", "4", "-", "0", "3", "-", "0", "7", "-",
    "d", "e", "e", "p", "-", "l", "e", "a", "r", "n", "i", "n", "g", "-",
    "a", "-", "p", "r", "i", "m", "e", "r", ".", "m", "d">>

\* C17: the export of a record whose title is a non-empty string is named
\* <YYYY-MM-DD>-<slug>.md, the date being that of the export with month
\* and day written in two digits and the slug the sanitized title; the
\* title "Deep Learning: A Primer!" exported on 7 March 2024 is named
\* 2024-03-07-deep-learning-a-primer.md.
C17_FilenameOfTitledRecord ==
  [][\A now \in Dates :
       (ClickExport(now) /\ ExportedTitle.t = "string"
          /\ ExportedTitle.s # EmptyString) =>
         /\ IsExportName(download'.filename, now,
                         SanitizeFilename(ExportedTitle.s))
         /\ (ExportedTitle.s = PrimerTitle /\ now.year = 2024
               /\ now.month = 2 /\ now.date = 7) =>
              download'.filename = PrimerFilename]_vars

\* C17 witness: the export of "Deep Learning: A Primer!" on 7 March 2024
C17_Witness ==
  /\ ExportedTitle = JStr(PrimerTitle)
  /\ download.filename = PrimerFilename

\* C18 as stated: the export of a record whose title is undefined or null
\* is named <today>-untitled-document.md, and an export has that name only
\* when the title is undefined or null.
C18_FallbackOnlyWithoutTitle ==
  [][\A now \in Dates :
       ClickExport(now) =>
         (Absent(ExportedTitle)
            <=> IsExportName(download'.filename, now, FallbackSlug))]_vars

\* the record has a title and it is the empty string
EmptyTitle == ExportedTitle.t = "string" /\ ExportedTitle.s = EmptyString

\* C18 amended: the export of a record whose title is undefined, null or
\* the empty string is named <today>-untitled-document.md; the export of
\* a record with any other title is named after the sanitized title, so
\* that it has the fallback name only if the title sanitizes to it.
C18_FallbackWithoutOrEmptyTitle ==
  [][\A now \in Dates :
       ClickExport(now) =>
         /\ (Absent(ExportedTitle) \/ EmptyTitle) =>
              IsExportName(download'.filename, now, FallbackSlug)
         /\ IsExportName(download'.filename, now, FallbackSlug) =>
              \/ Absent(ExportedTitle)
              \/ EmptyTitle
              \/ SanitizeFilename(ExportedTitle.s) = FallbackSlug]_vars

\* C18 witness: a record whose title is the empty string was exported
\* under the fallback name
C18_Witness ==
  /\ EmptyTitle
  /\ \E now \in Dates : IsExportName(download.filename, now, FallbackSlug)

\* a slug of lower-case letters, digits and single hyphens that neither
\* begins nor ends with a hyphen
CleanSlug(slug) ==
  /\ \A i \in 1..Len(slug) : slug[i] \in (WordChars \ Files) \cup {"-"}
  /\ \A i \in 1..(Len(slug) - 1) : ~(slug[i] = "-" /\ slug[i + 1] = "-")
  /\ slug # <<>> => (slug[1] # "-" /\ slug[Len(slug)] # "-")

\* the name without the date, the hyphen after it and the suffix
SlugOf(fn) == SubSeq(fn, 12, Len(fn) - 3)

\* C19: the slug in the name of an export, made of the record's title, is
\* lower-case, has only the letters a-z, digits and hyphens, has no two
\* hyphens in a row, and neither begins nor ends with a hyphen.
C19_SlugIsClean ==
  [][\A now \in Dates :
       (ClickExport(now) /\ ExportedTitle.t = "string") =>
         /\ ExportedTitle.s # EmptyString =>
              SlugOf(download'.filename) = SanitizeFilename(ExportedTitle.s)
         /\ CleanSlug(SlugOf(download'.filename))]_vars

\* the part of C19 that the code meets: letters a-z, digits and hyphens
\* only, and no two hyphens in a row
C19_SlugCharsAndSingleHyphens ==
  [][\A now \in Dates :
       (ClickExport(now) /\ ExportedTitle.t = "string") =>
         LET slug == SlugOf(download'.filename)
         IN  /\ \A i \in 1..Len(slug) : slug[i] \in (WordChars \ Files) \cup {"-"}
             /\ \A i \in 1..(Len(slug) - 1) :
                  ~(slug[i] = "-" /\ slug[i + 1] = "-")]_vars

MethodLine == "*Extraction method: ADE PDF Parse & Extract*"

\* the pieces of text that begin a heading, a metadata line, a separator
\* and the two closing lines
LineMarks ==
  {"# ", "## Metadata", "**Authors:** ", "**Published Year:** ",
   "**Pages:** ", "**Language:** ", "**Publisher:** ", "**Genres:** ",
   "---", "*Extracted on: ", MethodLine, "## Document Content"}

IsLineMark(token) == token \in LineMarks

\* the kinds of line of an artifact, in the order in which they occur
LinesOf(content) == SelectSeq(content, IsLineMark)

Line(cond, mark) == IF cond THEN <<mark>> ELSE <<>>

\* a title heading and metadata lines as told by the seven flags, in the
\* fixed order, then the separator, the timestamp and the method line
LinesWhen(title, authors, year, pages, language, publisher, genres) ==
  Line(title, "# ") \o <<"## Metadata">>
  \o Line(authors, "**Authors:** ")
  \o Line(year, "**Published Year:** ")
  \o Line(pages, "**Pages:** ")
  \o Line(language, "**Language:** ")
  \o Line(publisher, "**Publisher:** ")
  \o Line(genres, "**Genres:** ")
  \o <<"---", "*Extracted on: ", MethodLine>>

BeginsWith(str, prefix) ==
  Len(str) >= Len(prefix) /\ SubSeq(str, 1, Len(prefix)) = prefix

Field(k) == Get(ext.extractedBook, k)

Present(v) == v.t \notin {"undefined", "null"}

\* the artifact of a record with only the title "Ab" and the author "ann",
\* up to the timestamp
TitleAndAuthorsOnly ==
  (ext.extractedBook = JObj([title |-> JStr(<<"A", "b">>),
                             authors |-> JArr(<<JStr(<<"ann">>)>>)]))
    => BeginsWith(download'.content,
                  <<"# ", "A", "b", "\n", "\n", "## Metadata", "\n", "\n",
                    "**Authors:** ", "ann", "\n", "\n", "\n", "---", "\n",
                    "\n", "*Extracted on: ">>)

\* C20 as stated: the artifact has a title heading iff the record's title
\* is present, and a metadata line for a field iff the field is present,
\* in the order authors, year, pages, language, publisher, genres, then
\* the separator and the timestamp line; the record with only title and
\* authors gives heading, authors line, separator and timestamp line.
C20_LineIffFieldPresent ==
  [][\A now \in Dates :
       ClickExport(now) =>
         /\ BeginsWith(LinesOf(download'.content),
                       LinesWhen(Present(Field("title")),
                                 Present(Field("authors")),
                                 Present(Field("publishedYear")),
                                 Present(Field("pages")),
                                 Present(Field("language")),
                                 Present(Field("publisher")),
                                 Present(Field("genres"))))
         /\ TitleAndAuthorsOnly]_vars

HasText(v) == v.t = "string" /\ Len(v.s) > 0

HasItems(v) == v.t = "array" /\ Len(v.items) > 0

\* C20 amended: the artifact has a title heading iff the title is a
\* non-empty string, an authors or genres line iff the list has an item,
\* a year line iff the year is a number other than 0, a pages line iff
\* the page count is present, a language line iff the language is a
\* non-empty string, and a publisher line iff the publisher is an object
\* whose name or location is a non-empty string; the lines come in the
\* order authors, year, pages, language, publisher, genres, then the
\* separator, the timestamp line and the method line; the record with
\* only title and authors gives heading, authors line, separator and
\* timestamp line.
C20_LineIffFieldHasContent ==
  [][\A now \in Dates :
       ClickExport(now) =>
         /\ BeginsWith(LinesOf(download'.content),
                       LinesWhen(HasText(Field("title")),
                                 HasItems(Field("authors")),
                                 Field("publishedYear").t = "number"
                                   /\ Field("publishedYear").n # 0,
                                 Present(Field("pages")),
                                 HasText(Field("language")),
                                 Field("publisher").t = "object"
                                   /\ (HasText(Get(Field("publisher"), "name"))
                                         \/ HasText(Get(Field("publisher"),
                                                        "location"))),
                                 HasItems(Field("genres"))))
         /\ TitleAndAuthorsOnly]_vars

\* C20 witness: a record whose authors, year, language, publisher and
\* genres are present but empty or zero was exported with no metadata
\* line
C20_Witness ==
  /\ ext.extractedBook = JObj([authors |-> JArr(<<>>),
                               publishedYear |-> JNum(0, TRUE),
                               language |-> JStr(<<>>),
                               publisher |-> JObj(<<>>),
                               genres |-> JArr(<<>>)])
  /\ BeginsWith(LinesOf(download.content),
                <<"## Metadata", "---", "*Extracted on: ", MethodLine>>)

\* the record with only title and authors was exported
C20_TitleAndAuthorsExported ==
  /\ ext.extractedBook = JObj([title |-> JStr(<<"A", "b">>),
                               authors |-> JArr(<<JStr(<<"ann">>)>>)])
  /\ BeginsWith(LinesOf(download.content),
                <<"# ", "## Metadata", "**Authors:** ", "---",
                  "*Extracted on: ", MethodLine>>)

---------------------------------------------------------------------------
(* downloadMarkdown called with any record and any optional text *)

\* validated records with and without title, authors, pages and publisher
DownloadRecords ==
  {MkObj(a) :
     a \in [title : {JUndef, JStr(<<"A", "b">>)},
            authors : {JUndef, JArr(<<JStr(<<"ann">>)>>)},
            pages : {JUndef, JNum(7, TRUE)},
            publisher : {JUndef, JObj([name |-> JStr(<<"acme">>)])}]}

\* the argument fullMarkdown: not supplied, empty, blank, plain, padded
\* with whitespace, and of two paragraphs
DownloadTexts ==
  {JUndef, JStr(<<>>), JStr(<<" ">>), JStr(<<"\n", " ">>), JStr(<<"f1">>),
   JStr(<<" ", "f1", "\n">>), JStr(<<"f1", "\n", "\n", "f2">>)}

InitDownload ==
  /\ download = NoDownload
  /\ apiKey = TRUE
  /\ client = TRUE
  /\ selectedFile = NoFile
  /\ status = "idle"
  /\ markdown = EmptyString
  /\ parseError = EmptyString
  /\ ext = Unmounted(0)
  /\ calls = {}
  /\ nIssued = 0
  /\ lastCb = NoCb

\* one call of downloadMarkdown
CallDownloadMarkdown(data, fullMarkdown, now) ==
  /\ download = NoDownload
  /\ download' = DownloadMarkdown(data, fullMarkdown, now)
  /\ UNCHANGED <<wfVars, ext, calls, nIssued, lastCb>>

NextDownload ==
  \E data \in DownloadRecords, fullMarkdown \in DownloadTexts, now \in Dates :
    CallDownloadMarkdown(data, fullMarkdown, now)

SpecDownload == InitDownload /\ [][NextDownload]_vars

EndsWith(str, suffix) ==
  /\ Len(str) >= Len(suffix)
  /\ SubSeq(str, Len(str) - Len(suffix) + 1, Len(str)) = suffix

\* how often the token occurs in the string
Occurrences(str, token) == Cardinality({i \in 1..Len(str) : str[i] = token})

\* a supplied text with a character that is no whitespace
SuppliedNonBlank(v) ==
  v.t = "string" /\ \E i \in 1..Len(v.s) : v.s[i] \notin Whitespace

\* C21: when the text is supplied and not only whitespace, the artifact
\* has two separators and ends with the second one, the document heading
\* and the text, complete and unchanged; otherwise it has one separator,
\* no document heading, and ends with the extraction method line.
C21_DocumentTextIffNonBlank ==
  [][\A data \in DownloadRecords, text \in DownloadTexts, now \in Dates :
       CallDownloadMarkdown(data, text, now) =>
         LET content == download'.content
         IN  IF SuppliedNonBlank(text)
             THEN /\ Occurrences(content, "---") = 2
                  /\ EndsWith(content,
                              <<MethodLine, "\n", "\n", "\n", "---", "\n",
                                "\n", "## Document Content", "\n", "\n">>
                                \o text.s)
             ELSE /\ Occurrences(content, "---") = 1
                  /\ Occurrences(content, "## Document Content") = 0
                  /\ EndsWith(content, <<"*", "\n", "\n", MethodLine, "\n">>)]_vars

\* C21 witness: an artifact that ends with a text padded with whitespace
C21_Witness ==
  /\ Occurrences(download.content, "---") = 2
  /\ EndsWith(download.content,
              <<"## Document Content", "\n", "\n", " ", "f1", "\n">>)

\* an artifact made from a blank text ends after the extraction info lines
C21_BlankTextExported ==
  /\ download # NoDownload
  /\ EndsWith(download.content, <<MethodLine, "\n">>)

---------------------------------------------------------------------------
(* The record and the parse cycles *)

\* the step is an accepted parse request
ParseAccepted == HandleParsePdf /\ client /\ selectedFile # NoFile

\* the extract call was issued by an extractor of an earlier parse cycle
\* than the extractor on display, or no extractor is on display
FromEarlierCycle(c) == c.kind = "extract" /\ (~ext.mounted \/ c.inst < ext.inst)

\* C22: an accepted parse request takes the extractor and its record off
\* the display, so that nothing is stored or exportable while the parse is
\* in progress; each extractor mounted later is a new one; the
\* continuation of an extract call issued before leaves the extractor on
\* display untouched; and a record is stored only by the continuation of
\* a call that the extractor on display has issued.
C22_RecordDiscardedByNewParse ==
  /\ [](status = "parsing" => ~ext.mounted /\ ~RecordStored)
  /\ [](\A c \in calls : c.kind = "extract" => c.inst <= ext.inst)
  /\ [](\A now \in Dates : ENABLED ClickExport(now) => RecordStored)
  /\ [][/\ ParseAccepted => (status' = "parsing" /\ ~RecordStored')
        /\ (~ext.mounted /\ ext'.mounted) =>
             /\ ext'.inst > ext.inst
             /\ ext'.extractedBook = JNull
        /\ \A c \in calls :
             (ExtractResume(c) /\ FromEarlierCycle(c)) => ext' = ext
        /\ (ext'.extractedBook # JNull /\ ext'.extractedBook # ext.extractedBook) =>
             \E c \in calls :
               /\ ExtractResume(c)
               /\ ext.mounted
               /\ c.inst = ext.inst
               /\ ext'.inst = ext.inst]_vars

\* C22 witness: the extract call of the first cycle has completed with a
\* valid record after the second parse has finished, the host was handed
\* the record, and the extractor on display holds none
C22_Witness ==
  /\ calls = {}
  /\ nIssued = 3
  /\ ext.mounted
  /\ ext.inst = 2
  /\ ext.extractedBook = JNull
  /\ ~ext.isExtracting
  /\ lastCb.type = "success"

---------------------------------------------------------------------------
(* App: the API key, the configuration error, the client and the render
   guard of the workflow *)

ConfigErrorMsg ==
  <<"VISION_AGENT_API_KEY is not configured. Please add it to your .env file.">>

\* the memoised error of App
AppError == IF ~apiKey THEN ConfigErrorMsg ELSE EmptyString

\* the memoised adeClient of App, as "is not null": null without a key,
\* and null as well when the constructor throws
AdeClients == IF ~apiKey THEN {FALSE} ELSE BOOLEAN

\* a render guard that shows the workflow whatever the key and the client
WorkflowRenderedAlways == TRUE

\* {adeClient && !error && <PdfExtractionWorkflow client={adeClient} />}
WorkflowRendered == client /\ AppError = EmptyString

InitApp ==
  /\ download = NoDownload
  /\ apiKey \in BOOLEAN
  /\ client \in AdeClients
  /\ selectedFile = NoFile
  /\ status = "idle"
  /\ markdown = EmptyString
  /\ parseError = EmptyString
  /\ ext = Unmounted(0)
  /\ calls = {}
  /\ nIssued = 0
  /\ lastCb = NoCb

\* the controls of the workflow exist only while it is rendered; the
\* server answers, and continuations run, for the calls that were issued
NextApp ==
  \/ WorkflowRendered /\ \E file \in Files \cup {NoFile} : HandleFileChange(file)
  \/ WorkflowRendered /\ HandleParsePdf
  \/ \E c \in calls : ParseRespond(c)
  \/ \E c \in calls : ParseResume(c)
  \/ WorkflowRendered /\ ClickExtract
  \/ \E c \in calls : ExtractRespond(c)
  \/ \E c \in calls : ExtractResume(c)
  \/ WorkflowRendered /\ \E now \in Dates : ClickExport(now)

SpecApp == InitApp /\ [][NextApp]_vars

\* C23: without the API key the configuration error is shown, there is no
\* client, the workflow is not rendered, no parse or extract call has been
\* issued, and neither the parse error nor the extraction error nor an
\* error callback carries anything; the key never changes in a session.
C23_MissingKeyIsConfigurationError ==
  ~apiKey =>
    /\ AppError = ConfigErrorMsg
    /\ ~client
    /\ ~WorkflowRendered
    /\ ~ENABLED NextApp
    /\ nIssued = 0
    /\ calls = {}
    /\ status = "idle"
    /\ parseError = EmptyString
    /\ ext = Unmounted(0)
    /\ lastCb = NoCb

\* C23 witness: the application has started without the key and shows the
\* configuration error
C23_Witness == ~apiKey /\ AppError # EmptyString /\ ~client

\* with the key and a client the workflow of the same application runs
C23_WorkflowWithKey == apiKey /\ client /\ nIssued > 0 /\ RecordStored

---------------------------------------------------------------------------
(* The parse stage *)

Count(S) == Cardinality({b \in S : b[2]})

\* how many of: parse in progress, markdown stored, parse error shown
ParseStageFacts ==
  Count({<<"parsing", status = "parsing">>,
         <<"markdown", markdown # EmptyString>>,
         <<"error", parseError # EmptyString>>})

\* C24: at most one of "a parse call is in progress", "the stored markdown
\* is non-empty" and "the parse error is non-empty" holds; an accepted
\* parse request leaves the parse in progress with the markdown and the
\* error empty and its call issued; a failed parse leaves the error and no
\* markdown; and the client handle never changes.
C24_ParseStageExclusive ==
  /\ [](ParseStageFacts <= 1)
  /\ [][/\ client' = client
        /\ ParseAccepted =>
             /\ status' = "parsing"
             /\ markdown' = EmptyString
             /\ parseError' = EmptyString
             /\ IssuesOne("parse")
        /\ \A c \in calls : (ParseResume(c) /\ ParseFailed(c)) =>
             /\ status' = "idle"
             /\ markdown' = EmptyString
             /\ parseError' # EmptyString]_vars

\* C24 witness: a parse has produced markdown and a later parse of the
\* same session has failed: the error is shown and no markdown is left
C24_Witness ==
  /\ ext.inst >= 1
  /\ status = "idle"
  /\ markdown = EmptyString
  /\ parseError # EmptyString
  /\ nIssued >= 2

\* each of the three facts occurs alone
C24_EachFactOccurs ==
  /\ status = "idle"
  /\ markdown # EmptyString
  /\ parseError = EmptyString
  /\ nIssued >= 2

---------------------------------------------------------------------------
(* The extract stage *)

\* how many of: extract in progress, extraction error shown, record stored
ExtractStageFacts ==
  Count({<<"extracting", ext.isExtracting>>,
         <<"error", ext.error # EmptyString>>,
         <<"record", ext.extractedBook # JNull>>})

\* C25: at most one of "an extract call is in progress", "an extraction
\* error is shown" and "an extraction record is stored" holds; an accepted
\* extract request leaves the extraction in progress with no record and no
\* error and its call issued; and a failed extraction leaves the error and
\* no record on display.
C25_ExtractStageExclusive ==
  /\ [](ExtractStageFacts <= 1)
  /\ [][/\ ClickExtract =>
             /\ ext'.isExtracting
             /\ ext'.error = EmptyString
             /\ ext'.extractedBook = JNull
             /\ IssuesOne("extract")
        /\ \A c \in calls :
             (ExtractResume(c) /\ Live(c) /\ ~ExtractOutcome(c.resp).ok) =>
               /\ ~ext'.isExtracting
               /\ ext'.error = ExtractOutcome(c.resp).error
               /\ ext'.error # EmptyString
               /\ ~RecordStored']_vars

\* C25 witness: after a successful extraction, whose text the extractor
\* still keeps, a second extraction of the same markdown has failed: the
\* error is shown and no record is
C25_Witness ==
  /\ ext.mounted
  /\ ext.extractedMarkdown # EmptyString
  /\ ext.error # EmptyString
  /\ ext.extractedBook = JNull
  /\ ~ext.isExtracting

---------------------------------------------------------------------------
(* The text kept for export *)

\* the content of the artifact ends with the text s
ContentEndsWith(s) == EndsWith(download.content, s)

\* C26: whenever a record is stored, the text kept for export is the
\* markdown on display and is not blank; the continuation that stores a
\* record keeps the markdown that was sent in its call; and an export
\* hands downloadMarkdown the stored record with the markdown on display,
\* which closes the artifact.
C26_ExportTextIsRecordsText ==
  /\ [](RecordStored =>
          /\ ext.extractedMarkdown = markdown
          /\ Trim(markdown) # EmptyString)
  /\ [][/\ \A c \in calls :
             (ExtractResume(c) /\ ext'.extractedBook # ext.extractedBook) =>
               /\ ext'.extractedBook = ExtractOutcome(c.resp).book
               /\ ext'.extractedMarkdown = c.markdown
               /\ c.markdown = markdown
        /\ \A now \in Dates :
             ClickExport(now) =>
               /\ download' = DownloadMarkdown(ext.extractedBook,
                                               JStr(markdown), now)
               /\ EndsWith(download'.content, markdown)
               /\ RecordDocs(ext.extractedBook) \subseteq DocsOf(markdown)]_vars

\* C26 witness: after a parse of the first document, the second document
\* has been parsed, its record extracted and is being exported
C26_Witness ==
  /\ RecordStored
  /\ DocsOf(markdown) = {"f2"}
  /\ RecordDocs(ext.extractedBook) = {"f2"}
  /\ ext.inst = 2
  /\ nIssued = 3
  /\ download # NoDownload
  /\ ContentEndsWith(markdown)
  /\ ext.extractedMarkdown = markdown

---------------------------------------------------------------------------
(* The callbacks of the extractor *)

\* the answer to call c is a success of the transport with a payload that
\* is present and passes the schema
Validated(c) ==
  /\ c.resp.kind = "http"
  /\ c.resp.ok
  /\ ~Falsy(c.resp.extraction)
  /\ Validate(c.resp.extraction) = <<>>

\* C27: the continuation of an extract call runs once, and it invokes
\* onExtractionSuccess with the validated record when the call succeeded
\* with a payload that passes the schema, and onExtractionError with the
\* message it shows in every other case; handleExtract invoked with blank
\* markdown invokes onExtractionError with the message it shows and issues
\* no call, and an accepted request invokes nothing before it completes;
\* no other step invokes a callback; and a record handed to
\* onExtractionSuccess always conforms to the schema.
C27_OneCallbackPerRequest ==
  /\ [](lastCb.type = "success" => Conforms(lastCb.book))
  /\ [][/\ \A c \in calls :
             ExtractResume(c) =>
               /\ \A d \in calls' : d.id # c.id
               /\ IF Validated(c)
                  THEN /\ lastCb' = SuccessCb(SafeParse(c.resp.extraction).data)
                       /\ Live(c) => ext'.extractedBook = lastCb'.book
                  ELSE /\ lastCb'.type = "error"
                       /\ lastCb'.book = JNull
                       /\ lastCb'.msg # EmptyString
                       /\ Live(c) => ext'.error = lastCb'.msg
        /\ HandleExtract =>
             IF Trim(markdown) = EmptyString
             THEN /\ lastCb' = ErrorCb(NoMarkdownMsg)
                  /\ ext'.error = NoMarkdownMsg
                  /\ calls' = calls
             ELSE /\ lastCb' = lastCb
                  /\ IssuesOne("extract")
        /\ (\A c \in calls : ~ExtractResume(c)) /\ ~HandleExtract =>
             lastCb' = lastCb]_vars

\* C27 witness: the second request of the host, or a later one, has
\* completed with a validated record, which the host was handed
C27_Witness ==
  /\ calls = {}
  /\ nIssued >= 2
  /\ ext.error = EmptyString
  /\ lastCb.type = "success"
  /\ ext.extractedBook = lastCb.book

\* a request has completed with a failure other than blank markdown
C27_ErrorCallback ==
  /\ calls = {}
  /\ nIssued >= 1
  /\ lastCb.type = "error"
  /\ lastCb.msg # NoMarkdownMsg
  /\ ext.error = lastCb.msg

\* handleExtract was invoked with blank markdown after a successful request
C27_BlankCallback ==
  /\ nIssued >= 1
  /\ lastCb = ErrorCb(NoMarkdownMsg)
  /\ ext.error = NoMarkdownMsg

====
